---- MODULE Spec2Model ----
(***************************************************************************)
(* The session cache of backend/app/utils/session.py: a process-local dict *)
(* (_session_cache) in front of the user_sessions table, guarded by one    *)
(* asyncio.Lock (_cache_lock), with fire-and-forget background writes       *)
(* (asyncio.create_task(_update_session_async(...))).                       *)
(*                                                                         *)
(* Scheduling.  All coroutines run on one asyncio event loop.  A coroutine  *)
(* gives up control only at an await that really suspends.  The store      *)
(* calls are plain synchronous calls (supabase...execute() is not awaited), *)
(* awaiting another coroutine of the module does not suspend by itself, and *)
(* acquiring a free asyncio.Lock does not suspend.  The lock is never held  *)
(* across a suspension, so a call of the module runs from its first line to *)
(* its return before the loop runs anything else; the tasks made by         *)
(* create_task start, in creation order, once the loop has control again.   *)
(* The model keeps the calls' steps apart (pc) so that what happens under   *)
(* the lock and what happens outside it stays visible.                      *)
(*                                                                         *)
(* Aliasing.  The dict cached for a session and the list/dict objects in    *)
(* it are shared: get_session returns the cached dict itself, and the data  *)
(* handed to a background write holds the very list that is in the cache.   *)
(* A background write therefore stores what its list holds when it runs.    *)
(* A pending write's field is "alias" while its object is the one in the    *)
(* cache; when the cache lets go of the object (field replaced, entry       *)
(* popped or cleared) the object keeps its last content, which the model    *)
(* copies into the pending write (Freeze).                                  *)
(***************************************************************************)
EXTENDS Integers, Sequences, FiniteSets, TLC

\* ---------------------------------------------------------------- bounds
MaxSessions == 2    \* rows the store's id generator hands out: ids 1..MaxSessions
MaxMsgs == 2        \* chat messages / quiz responses submitted in a run
MaxTasks == 2       \* background writes pending at one time
MaxClock == 1       \* the clock reads 0..MaxClock
MaxCalls == 3       \* calls made in a run, those of clear_session_cache apart
MaxLoops == 2       \* _sync_loop tasks created in a run

\* ---------------------------------------------------------------- values
NoId == -1
CallerId == 0       \* an id a caller made up (uuid4); the store never generates it
StoreIds == 1..MaxSessions
Ids == {CallerId} \cup StoreIds
\* create_session is called without an id (None) or with one the caller made up
CreateIds == {NoId, CallerId}
Users == {"default_user", "user123"}
Msgs == 1..MaxMsgs
Times == 0..MaxClock

Fields == {"chat_history", "quiz_history", "progress"}

EmptyMap == [k \in {} |-> 0]
Map1(k, v) == [x \in {k} |-> v]
ProgressInputs == {Map1("a", 1), Map1("a", 2), Map1("b", 2)}

Range(s) == {s[i] : i \in 1..Len(s)}
Count(s, m) == Cardinality({i \in 1..Len(s) : s[i] = m})

Put(f, k, v) == [x \in DOMAIN f \cup {k} |-> IF x = k THEN v ELSE f[x]]
Drop(f, k) == [x \in DOMAIN f \ {k} |-> f[x]]

\* an assignment instead of a merge: the keys other does not name are lost
DictUpdate_replaces(p, q) == q

\* dict.update(other): keys of other overwrite, every other key stays
DictUpdate(p, q) == [k \in DOMAIN p \cup DOMAIN q |-> IF k \in DOMAIN q THEN q[k] ELSE p[k]]

Rec(sid, uid, ch, qh, pr, ca, ua) ==
    [session_id |-> sid, user_id |-> uid, chat_history |-> ch, quiz_history |-> qh,
     progress |-> pr, created_at |-> ca, updated_at |-> ua]

NoRec == Rec(NoId, "", <<>>, <<>>, EmptyMap, 0, 0)

\* a row of user_sessions; the store generates id
Row(i, uid, ch, qh, pr, ca, ua) ==
    [id |-> i, user_id |-> uid, chat_history |-> ch, quiz_history |-> qh,
     progress |-> pr, created_at |-> ca, updated_at |-> ua]

\* a conversion that fills in the default user instead of the row's
FromRow_anonymous(r) ==
    [session_id |-> r.id, user_id |-> "default_user", chat_history |-> r.chat_history,
     quiz_history |-> r.quiz_history, progress |-> r.progress,
     created_at |-> r.created_at, updated_at |-> r.updated_at]

\* "Convert database format to expected session format"
FromRow(r) ==
    Rec(r.id, r.user_id, r.chat_history, r.quiz_history, r.progress, r.created_at, r.updated_at)

\* the data dict of update_session / _update_session_async: the fields it
\* holds, which of them are the objects now in the cache, and their content
Data(fs, al, ch, qh, pr, ua) ==
    [fields |-> fs, alias |-> al, chat_history |-> ch, quiz_history |-> qh,
     progress |-> pr, updated_at |-> ua]

NoData == Data({}, {}, <<>>, <<>>, EmptyMap, 0)

\* {"chat_history": [], "quiz_history": []}: two new empty lists
ClearData == Data({"chat_history", "quiz_history"}, {}, <<>>, <<>>, EmptyMap, 0)

NoAfter == [name |-> "none", id |-> NoId, uid |-> "", status |-> "none", had |-> FALSE]

\* a call: its arguments and locals; for a call made by
\* ChatService.process_message: the caller, where the caller stands (stage),
\* whether it created a session (lazy) and how its last call ended (inner)
NoOp ==
    [name |-> "none", id |-> NoId, uid |-> "", field |-> "none", msg |-> 0,
     partial |-> EmptyMap, data |-> NoData, found |-> FALSE, loaded |-> NoRec,
     pre |-> NoRec, after |-> NoAfter,
     caller |-> "none", stage |-> "none", lazy |-> FALSE, inner |-> "none"]

NoBatch == [id |-> NoId, field |-> "none", hit |-> FALSE, stored |-> FALSE,
            base |-> <<>>, issued |-> 0, msgs |-> <<>>]

NoRet == [call |-> NoOp, status |-> "none", val |-> NoRec, flag |-> FALSE]

\* nothing observed yet
NoSeen == [updated_at |-> -1, chat_history |-> 0, quiz_history |-> 0]

\* ---------------------------------------------------------------- BackgroundSyncService values
NoTask == 0         \* sync_task is None
NoTime == -1        \* last_sync_time is None
LoopIds == 1..MaxLoops
\* who runs _perform_sync: force_sync_now (ForceCaller) or a _sync_loop task
ForceCaller == 0
Performers == {ForceCaller} \cup LoopIds
\* where a task that has not finished stands: created and not yet run, inside
\* _perform_sync at one of its two awaits, or in asyncio.sleep(sync_interval)
LiveStates == {"created", "fetching", "exporting", "sleeping"}
\* how a _perform_sync can end without an export that succeeded
FailedOutcomes == {"fetch_raised", "export_raised", "export_failed"}

NoLoop == [state |-> "none", cancel |-> FALSE, outcome |-> "none"]
NoSCall == [name |-> "none", stage |-> "none", awaiting |-> NoTask, outcome |-> "none"]
NoSRet == [name |-> "none", val |-> FALSE, outcome |-> "none"]

VARIABLES
    cache,      \* _session_cache: session id -> session dict
    db,         \* the user_sessions table: id -> row
    dbUp,       \* the store answers; when FALSE every call to it raises
    nextId,     \* the id the store generates for the next inserted row
    tasks,      \* the event loop's queue of _update_session_async tasks not yet run
    lock,       \* _cache_lock is held
    pc,         \* where the one running call stands; "idle": the loop has control
    op,         \* the running call: its arguments and locals
    ret,        \* how the last call ended; its val is what it returned
    now,        \* the last reading of datetime.utcnow()
    nextMsg,    \* the next message to be submitted (every submitted entry is new)
    calls,      \* calls made so far, those of clear_session_cache apart
    acked,      \* per id: the entries whose append has returned successfully since
                \* the history was last cleared or the session deleted
    batch,      \* the append calls issued together on one history of one session,
                \* with no other call of the module between them: the history
                \* they found (base) and the entries whose call has returned (msgs)
    seen,       \* per id: the updated_at of the record get_session returned last
                \* (since the session was deleted, if it was), and the lengths of
                \* its histories (since they were cleared last, if they were)
    is_running,     \* BackgroundSyncService.is_running
    sync_task,      \* BackgroundSyncService.sync_task: the task created last, NoTask for None
    last_sync_time, \* BackgroundSyncService.last_sync_time, NoTime for None
    loops,          \* the _sync_loop tasks created so far: where each stands, whether
                    \* cancel() has been requested and not yet delivered, and how its
                    \* last _perform_sync ended
    scall,          \* the call of the service in progress, if any
    sret            \* the call of the service that returned last

vars == <<cache, db, dbUp, nextId, tasks, lock, pc, op, ret, now, nextMsg, calls, acked, batch, seen,
         is_running, sync_task, last_sync_time, loops, scall, sret>>

\* the state of BackgroundSyncService and of its tasks
syncVars == <<is_running, sync_task, last_sync_time, loops, scall, sret>>

Snapshot(id) == IF id \in DOMAIN cache THEN cache[id] ELSE NoRec

\* ---------------------------------------------------------------- aliasing
\* a pending write, kept as its data dict plus the session id
Task(id, d) == [id |-> id, data |-> d]

\* the cache lets go of the objects of fields fs of session id, whose content
\* is rec: pending writes that hold them keep that content
Freeze(t, id, rec, fs) ==
    IF t.id # id THEN t
    ELSE [t EXCEPT !.data =
            [fields |-> t.data.fields,
             alias |-> t.data.alias \ fs,
             chat_history |-> IF "chat_history" \in t.data.alias \cap fs
                              THEN rec.chat_history ELSE t.data.chat_history,
             quiz_history |-> IF "quiz_history" \in t.data.alias \cap fs
                              THEN rec.quiz_history ELSE t.data.quiz_history,
             progress |-> IF "progress" \in t.data.alias \cap fs
                          THEN rec.progress ELSE t.data.progress,
             updated_at |-> t.data.updated_at]]

Detach(ts, id, fs) ==
    IF id \in DOMAIN cache
    THEN [i \in 1..Len(ts) |-> Freeze(ts[i], id, cache[id], fs)]
    ELSE ts

RECURSIVE DetachAll(_, _)
DetachAll(ts, ids) ==
    IF ids = {} THEN ts
    ELSE LET i == CHOOSE x \in ids : TRUE
         IN DetachAll(Detach(ts, i, Fields), ids \ {i})

\* what a pending write's field holds now
TaskValue(t, f) ==
    IF f \in t.data.alias /\ t.id \in DOMAIN cache THEN cache[t.id][f] ELSE t.data[f]

\* what a pending write's field holds after the step
TaskValueNext(t, f) ==
    IF f \in t.data.alias /\ t.id \in DOMAIN cache' THEN cache'[t.id][f] ELSE t.data[f]

\* the data of a scheduled write: its objects are all in the cache now, so their
\* content is read through the cache; its updated_at is never read by
\* _update_session_async (which stamps its own) and is not kept
Aliased(d) == Data(d.fields, d.fields, <<>>, <<>>, EmptyMap, 0)

\* the process starts with an empty cache; the table is empty or holds the row
\* of a session an earlier process created
StoredRow == Row(1, "user123", <<>>, <<>>, EmptyMap, 0, 0)

Init ==
    /\ cache = [x \in {} |-> NoRec]
    /\ \/ /\ db = [x \in {} |-> NoRec]
          /\ nextId = 1
       \/ /\ db = [x \in {1} |-> StoredRow]
          /\ nextId = 2
    /\ dbUp = TRUE
    /\ tasks = <<>>
    /\ lock = FALSE
    /\ pc = "idle"
    /\ op = NoOp
    /\ ret = NoRet
    /\ now = 0
    /\ nextMsg = 1
    /\ calls = 0
    /\ acked = [i \in Ids |-> {}]
    /\ batch = NoBatch
    /\ seen = [i \in Ids |-> NoSeen]
    /\ is_running = FALSE
    /\ sync_task = NoTask
    /\ last_sync_time = NoTime
    /\ loops = [k \in LoopIds |-> NoLoop]
    /\ scall = NoSCall
    /\ sret = NoSRet

\* a call begins: it is recorded with the cached record it finds
Begin(name, id) ==
    [NoOp EXCEPT !.name = name, !.id = id, !.pre = Snapshot(id)]

\* a call ends; a call made by process_message hands its outcome to it
Return(status, val, flag) ==
    IF op.caller = "none"
    THEN /\ pc' = "idle"
         /\ ret' = [call |-> op, status |-> status, val |-> val, flag |-> flag]
         /\ op' = NoOp
    ELSE /\ pc' = "pm_added"
         /\ ret' = ret
         /\ op' = [op EXCEPT !.name = op.caller, !.caller = "none", !.inner = status]

\* ---------------------------------------------------------------- create_session
\* lines 20-50 and the acquire of line 53: the row is inserted synchronously and
\* the store generates the id; the session_id argument is not used
create_session(sid, uid) ==
    /\ pc = "idle"
    /\ calls < MaxCalls
    /\ calls' = calls + 1
    /\ nextId <= MaxSessions
    /\ \E t1 \in now..MaxClock : \E t2 \in t1..MaxClock :
        /\ now' = t2
        /\ IF dbUp
           THEN /\ lock = FALSE
                /\ db' = Put(db, nextId, Row(nextId, uid, <<>>, <<>>, EmptyMap, t1, t2))
                /\ nextId' = nextId + 1
                /\ op' = [Begin("create_session", sid) EXCEPT
                            !.uid = uid,
                            !.loaded = Rec(nextId, uid, <<>>, <<>>, EmptyMap, t1, t2)]
                /\ lock' = TRUE
                /\ pc' = "cs_put"
                /\ ret' = NoRet
           ELSE /\ pc' = "idle"
                /\ op' = NoOp
                /\ ret' = [call |-> [Begin("create_session", sid) EXCEPT !.uid = uid],
                           status |-> "Exception", val |-> NoRec, flag |-> FALSE]
                /\ UNCHANGED <<db, dbUp, nextId, lock>>
    /\ batch' = NoBatch
    /\ UNCHANGED <<cache, dbUp, tasks, nextMsg, acked, seen, syncVars>>

\* lines 54-57, under the lock
create_session_put ==
    /\ pc = "cs_put"
    /\ cache' = Put(cache, op.loaded.session_id, op.loaded)
    /\ tasks' = Detach(tasks, op.loaded.session_id, Fields)
    /\ lock' = FALSE
    /\ Return("ok", op.loaded, TRUE)
    /\ UNCHANGED <<db, dbUp, nextId, now, nextMsg, acked, batch, calls, seen, syncVars>>

\* ---------------------------------------------------------------- get_session
\* a call of get_session from outside the module; it is recorded with the call
\* it follows (after)
get_session(id) ==
    /\ pc = "idle"
    /\ calls < MaxCalls
    /\ calls' = calls + 1
    /\ op' = [Begin("get_session", id) EXCEPT
                !.after = [name |-> ret.call.name, id |-> ret.call.id,
                           uid |-> ret.call.uid, status |-> ret.status,
                           had |-> ret.call.pre # NoRec]]
    /\ pc' = "gs_enter"
    /\ ret' = NoRet
    /\ batch' = NoBatch
    /\ UNCHANGED <<cache, db, dbUp, nextId, tasks, lock, now, nextMsg, acked, seen, syncVars>>

\* what the caller of get_session sees of the record it got
Observed(rec) ==
    [updated_at |-> rec.updated_at, chat_history |-> Len(rec.chat_history),
     quiz_history |-> Len(rec.quiz_history)]

\* get_session hands its result to whoever called it: the outside caller, or
\* add_chat_message / add_quiz_response / update_progress (lines 209, 241, 273),
\* or the history routes (chat.py lines 194 and 219), or process_message
\* (chat_service.py line 31)
GetReturns(found, val) ==
    IF op.name = "get_session"
    THEN /\ Return("ok", val, found)
         /\ seen' = IF found THEN [seen EXCEPT ![op.id] = Observed(val)] ELSE seen
         /\ UNCHANGED syncVars
    ELSE /\ op' = [op EXCEPT !.found = found]
         /\ pc' = IF op.name = "clear_chat_history" THEN "clear_after_get"
                  ELSE IF op.name = "get_chat_history" THEN "history_after_get"
                  ELSE IF op.name = "process_message" THEN "pm_got"
                  ELSE "add_fallback"
         /\ ret' = ret
         /\ seen' = seen
         /\ UNCHANGED syncVars

\* line 69: async with _cache_lock
get_session_enter ==
    /\ pc = "gs_enter"
    /\ lock = FALSE
    /\ lock' = TRUE
    /\ pc' = "gs_check"
    /\ UNCHANGED <<cache, db, dbUp, nextId, tasks, op, ret, now, nextMsg, acked, batch, calls, seen, syncVars>>

\* lines 70-71 under the lock: a hit returns the cached dict itself
get_session_check ==
    /\ pc = "gs_check"
    /\ lock' = FALSE
    /\ IF op.id \in DOMAIN cache
       THEN GetReturns(TRUE, cache[op.id])
       ELSE /\ pc' = "gs_load"
            /\ UNCHANGED <<op, ret, seen, syncVars>>
    /\ UNCHANGED <<cache, db, dbUp, nextId, tasks, now, nextMsg, acked, batch, calls>>

\* a load without the try/except of lines 65 and 96-98: the failure of the
\* store reaches the caller
get_session_load_raises ==
    /\ pc = "gs_load"
    /\ IF dbUp /\ op.id \in DOMAIN db
       THEN /\ lock = FALSE
            /\ lock' = TRUE
            /\ op' = [op EXCEPT !.loaded = FromRow(db[op.id])]
            /\ pc' = "gs_store"
            /\ UNCHANGED <<ret, seen, syncVars>>
       ELSE /\ IF dbUp THEN GetReturns(FALSE, NoRec)
               ELSE Return("Exception", NoRec, FALSE) /\ seen' = seen /\ UNCHANGED syncVars
            /\ lock' = lock
    /\ UNCHANGED <<cache, db, dbUp, nextId, tasks, now, nextMsg, acked, batch, calls>>

\* lines 74-90 outside the lock: the select; a failure of the store or no row
\* gives None (lines 94, 96-98); a row is converted and the lock taken again
get_session_load ==
    /\ pc = "gs_load"
    /\ IF dbUp /\ op.id \in DOMAIN db
       THEN /\ lock = FALSE
            /\ lock' = TRUE
            /\ op' = [op EXCEPT !.loaded = FromRow(db[op.id])]
            /\ pc' = "gs_store"
            /\ UNCHANGED <<ret, seen, syncVars>>
       ELSE /\ GetReturns(FALSE, NoRec)
            /\ lock' = lock
    /\ UNCHANGED <<cache, db, dbUp, nextId, tasks, now, nextMsg, acked, batch, calls>>

\* a load that returns the record without keeping it
get_session_store_forgets ==
    /\ pc = "gs_store"
    /\ cache' = cache
    /\ tasks' = tasks
    /\ lock' = FALSE
    /\ GetReturns(TRUE, op.loaded)
    /\ UNCHANGED <<db, dbUp, nextId, now, nextMsg, acked, batch, calls>>

\* lines 91-92 under the lock: the loaded record replaces whatever the cache holds
get_session_store ==
    /\ pc = "gs_store"
    /\ cache' = Put(cache, op.id, op.loaded)
    /\ tasks' = Detach(tasks, op.id, Fields)
    /\ lock' = FALSE
    /\ GetReturns(TRUE, op.loaded)
    /\ UNCHANGED <<db, dbUp, nextId, now, nextMsg, acked, batch, calls>>

\* ---------------------------------------------------------------- update_session
\* a call of update_session from outside the module, with the data of the
\* history-clear route
update_session(id) ==
    /\ pc = "idle"
    /\ calls < MaxCalls
    /\ calls' = calls + 1
    /\ Len(tasks) < MaxTasks
    /\ op' = [Begin("update_session", id) EXCEPT !.data = ClearData]
    /\ pc' = "us_enter"
    /\ ret' = NoRet
    /\ batch' = NoBatch
    /\ UNCHANGED <<cache, db, dbUp, nextId, tasks, lock, now, nextMsg, acked, seen, syncVars>>

\* how update_session ends for its caller: the route turns every exception
\* into HTTP 500 (chat.py lines 231-233)
UpdateReturns(status, val) ==
    IF op.name = "clear_chat_history"
    THEN Return(IF status = "ok" THEN "ok" ELSE "HTTP500", val, status = "ok")
    ELSE Return(status, val, status = "ok")

\* lines 103 and 106: stamp the data, then async with _cache_lock
update_session_enter ==
    /\ pc = "us_enter"
    /\ lock = FALSE
    /\ \E t \in now..MaxClock :
        /\ now' = t
        /\ op' = [op EXCEPT !.data.updated_at = t]
    /\ lock' = TRUE
    /\ pc' = "us_body"
    /\ UNCHANGED <<cache, db, dbUp, nextId, tasks, ret, nextMsg, acked, batch, calls, seen, syncVars>>

\* an update that rebuilds the session record from data alone
UpdatedRec_resets(rec, d) ==
    [rec EXCEPT
        !.chat_history = IF "chat_history" \in d.fields \ d.alias
                         THEN d.chat_history ELSE @,
        !.quiz_history = IF "quiz_history" \in d.fields \ d.alias
                         THEN d.quiz_history ELSE @,
        !.progress = IF "progress" \in d.fields THEN @ ELSE EmptyMap,
        !.updated_at = d.updated_at]

\* dict.update(data) on a session record whose objects are in the cache: a field
\* of data that is the cached object stays, a new object replaces it
UpdatedRec(rec, d) ==
    [rec EXCEPT
        !.chat_history = IF "chat_history" \in d.fields \ d.alias
                         THEN d.chat_history ELSE @,
        !.quiz_history = IF "quiz_history" \in d.fields \ d.alias
                         THEN d.quiz_history ELSE @,
        !.progress = IF "progress" \in d.fields \ d.alias THEN d.progress ELSE @,
        !.updated_at = d.updated_at]

\* session_data.update(data) on a record just built from a row (line 125)
UpdatedLoaded(rec, d) ==
    [rec EXCEPT
        !.chat_history = IF "chat_history" \in d.fields THEN d.chat_history ELSE @,
        !.quiz_history = IF "quiz_history" \in d.fields THEN d.quiz_history ELSE @,
        !.progress = IF "progress" \in d.fields THEN d.progress ELSE @,
        !.updated_at = d.updated_at]

\* an append call of the batch has returned
BatchAfter ==
    IF op.name \in {"add_chat_message", "add_quiz_response"}
    THEN [batch EXCEPT !.msgs = Append(@, op.msg)]
    ELSE batch

\* the histories of id start anew when data replaces both by empty lists
AckedAfter(id, d) ==
    IF {"chat_history", "quiz_history"} \subseteq d.fields \ d.alias
       /\ d.chat_history = <<>> /\ d.quiz_history = <<>>
    THEN [acked EXCEPT ![id] = {}]
    ELSE IF op.name \in {"add_chat_message", "add_quiz_response"}
         THEN [acked EXCEPT ![id] = @ \cup {op.msg}]
         ELSE acked

\* the observed lengths of the histories of id start anew with the histories
SeenAfter(id, d) ==
    IF {"chat_history", "quiz_history"} \subseteq d.fields \ d.alias
       /\ d.chat_history = <<>> /\ d.quiz_history = <<>>
    THEN [seen EXCEPT ![id].chat_history = 0, ![id].quiz_history = 0]
    ELSE seen

\* variant: the lock is taken with acquire() and released only on the normal
\* path, so the raise inside the locked block leaves it held
update_session_body_holds ==
    /\ pc = "us_body"
    /\ lock' = (op.id \notin DOMAIN cache /\ ~(dbUp /\ op.id \in DOMAIN db))
    /\ IF op.id \in DOMAIN cache
       THEN /\ cache' = [cache EXCEPT ![op.id] = UpdatedRec(@, op.data)]
            /\ tasks' = Append(Detach(tasks, op.id, op.data.fields \ op.data.alias),
                               Task(op.id, Aliased(op.data)))
            /\ acked' = AckedAfter(op.id, op.data)
            /\ seen' = SeenAfter(op.id, op.data)
            /\ UNCHANGED syncVars
            /\ batch' = BatchAfter
            /\ UpdateReturns("ok", cache'[op.id])
       ELSE IF dbUp /\ op.id \in DOMAIN db
            THEN /\ cache' = Put(cache, op.id, UpdatedLoaded(FromRow(db[op.id]), op.data))
                 /\ tasks' = Append(tasks, Task(op.id, Aliased(op.data)))
                 /\ acked' = AckedAfter(op.id, op.data)
                 /\ seen' = SeenAfter(op.id, op.data)
                 /\ UNCHANGED syncVars
                 /\ batch' = BatchAfter
                 /\ UpdateReturns("ok", cache'[op.id])
            ELSE /\ UpdateReturns(IF dbUp THEN "ValueError" ELSE "Exception", NoRec)
                 /\ UNCHANGED <<cache, tasks, acked, batch, seen, syncVars>>
    /\ UNCHANGED <<db, dbUp, nextId, now, nextMsg, calls>>

\* lines 107-134: under the lock, the hit updates the cached dict in place; the
\* miss selects the row while the lock is held, and raises when the store fails
\* or has no row; then the background write is scheduled with the same data
update_session_body ==
    /\ pc = "us_body"
    /\ lock' = FALSE
    /\ IF op.id \in DOMAIN cache
       THEN /\ cache' = [cache EXCEPT ![op.id] = UpdatedRec(@, op.data)]
            /\ tasks' = Append(Detach(tasks, op.id, op.data.fields \ op.data.alias),
                               Task(op.id, Aliased(op.data)))
            /\ acked' = AckedAfter(op.id, op.data)
            /\ seen' = SeenAfter(op.id, op.data)
            /\ UNCHANGED syncVars
            /\ batch' = BatchAfter
            /\ UpdateReturns("ok", cache'[op.id])
       ELSE IF dbUp /\ op.id \in DOMAIN db
            THEN /\ cache' = Put(cache, op.id, UpdatedLoaded(FromRow(db[op.id]), op.data))
                 /\ tasks' = Append(tasks, Task(op.id, Aliased(op.data)))
                 /\ acked' = AckedAfter(op.id, op.data)
                 /\ seen' = SeenAfter(op.id, op.data)
                 /\ UNCHANGED syncVars
                 /\ batch' = BatchAfter
                 /\ UpdateReturns("ok", cache'[op.id])
            ELSE /\ UpdateReturns(IF dbUp THEN "ValueError" ELSE "Exception", NoRec)
                 /\ UNCHANGED <<cache, tasks, acked, batch, seen, syncVars>>
    /\ UNCHANGED <<db, dbUp, nextId, now, nextMsg, calls>>

\* ---------------------------------------------------------------- _update_session_async
\* variant: a write that replaces the row by the data sent, the columns that
\* were not sent being emptied
UpdatedRow_replaces(row, t, at) ==
    [row EXCEPT
        !.chat_history = IF "chat_history" \in t.data.fields
                         THEN TaskValue(t, "chat_history") ELSE <<>>,
        !.quiz_history = IF "quiz_history" \in t.data.fields
                         THEN TaskValue(t, "quiz_history") ELSE <<>>,
        !.progress = IF "progress" \in t.data.fields THEN TaskValue(t, "progress") ELSE EmptyMap,
        !.updated_at = at]

\* the columns a background write sends: a new updated_at and the fields of data
UpdatedRow(row, t, at) ==
    [row EXCEPT
        !.chat_history = IF "chat_history" \in t.data.fields
                         THEN TaskValue(t, "chat_history") ELSE @,
        !.quiz_history = IF "quiz_history" \in t.data.fields
                         THEN TaskValue(t, "quiz_history") ELSE @,
        !.progress = IF "progress" \in t.data.fields THEN TaskValue(t, "progress") ELSE @,
        !.updated_at = at]

\* a background write without its try/except: the failure reaches the caller
_update_session_async_raises ==
    /\ pc = "idle"
    /\ tasks # <<>>
    /\ \E t \in now..MaxClock :
        /\ now' = t
        /\ db' = IF dbUp /\ Head(tasks).id \in DOMAIN db
                 THEN [db EXCEPT ![Head(tasks).id] = UpdatedRow(@, Head(tasks), t)]
                 ELSE db
    /\ ret' = IF dbUp THEN ret ELSE [ret EXCEPT !.status = "Exception"]
    /\ tasks' = Tail(tasks)
    /\ UNCHANGED <<cache, dbUp, nextId, lock, pc, op, nextMsg, acked, batch, calls, seen, syncVars>>

\* a background write that upserts: it inserts the row when there is none
_update_session_async_upserts ==
    /\ pc = "idle"
    /\ tasks # <<>>
    /\ \E t \in now..MaxClock :
        /\ now' = t
        /\ db' = IF ~dbUp THEN db
                 ELSE IF Head(tasks).id \in DOMAIN db
                      THEN [db EXCEPT ![Head(tasks).id] = UpdatedRow(@, Head(tasks), t)]
                      ELSE Put(db, Head(tasks).id,
                               UpdatedRow(Row(Head(tasks).id, "default_user", <<>>, <<>>,
                                              EmptyMap, t, t),
                                          Head(tasks), t))
    /\ tasks' = Tail(tasks)
    /\ UNCHANGED <<cache, dbUp, nextId, lock, pc, op, ret, nextMsg, acked, batch, calls, seen, syncVars>>

\* a background write that is queued again when the store fails
_update_session_async_retries ==
    /\ pc = "idle"
    /\ tasks # <<>>
    /\ \E t \in now..MaxClock :
        /\ now' = t
        /\ db' = IF dbUp /\ Head(tasks).id \in DOMAIN db
                 THEN [db EXCEPT ![Head(tasks).id] = UpdatedRow(@, Head(tasks), t)]
                 ELSE db
    /\ tasks' = IF dbUp THEN Tail(tasks) ELSE Append(Tail(tasks), Head(tasks))
    /\ UNCHANGED <<cache, dbUp, nextId, lock, pc, op, ret, nextMsg, acked, batch, calls, seen, syncVars>>

\* lines 140-158: the loop runs the oldest pending write; it updates the row
\* with that id if there is one; a failure is logged and the write dropped
_update_session_async ==
    /\ pc = "idle"
    /\ tasks # <<>>
    /\ \E t \in now..MaxClock :
        /\ now' = t
        /\ db' = IF dbUp /\ Head(tasks).id \in DOMAIN db
                 THEN [db EXCEPT ![Head(tasks).id] = UpdatedRow(@, Head(tasks), t)]
                 ELSE db
    /\ tasks' = Tail(tasks)
    /\ UNCHANGED <<cache, dbUp, nextId, lock, pc, op, ret, nextMsg, acked, batch, calls, seen, syncVars>>

\* ---------------------------------------------------------------- add_chat_message, add_quiz_response, update_progress
\* a merge that adds to the value a key already has
Mutated_accumulates(rec, f, msg, partial) ==
    IF f = "chat_history" THEN [rec EXCEPT !.chat_history = Append(@, msg)]
    ELSE IF f = "quiz_history" THEN [rec EXCEPT !.quiz_history = Append(@, msg)]
    ELSE [rec EXCEPT !.progress =
            [k \in DOMAIN @ \cup DOMAIN partial |->
                IF k \in DOMAIN partial
                THEN (IF k \in DOMAIN @ THEN @[k] + partial[k] ELSE partial[k])
                ELSE @[k]]]

\* the three calls share one shape: field f of the session is changed in place
\* (list.append(msg) or dict.update(partial))
Mutated(rec, f, msg, partial) ==
    IF f = "chat_history" THEN [rec EXCEPT !.chat_history = Append(@, msg)]
    ELSE IF f = "quiz_history" THEN [rec EXCEPT !.quiz_history = Append(@, msg)]
    ELSE [rec EXCEPT !.progress = DictUpdate(@, partial)]

\* the call is update_progress with the arguments of the call before it
Repeats(name, id, partial) ==
    /\ name = "update_progress"
    /\ ret.call.name = name
    /\ ret.call.id = id
    /\ ret.call.partial = partial

\* lines 194, 226, 258: the call begins and takes the lock; an update_progress
\* that repeats the call before it is recorded with that call (after)
AddBegins(name, id, f, msg, partial) ==
    /\ pc = "idle"
    /\ calls < MaxCalls
    /\ calls' = calls + 1
    /\ lock = FALSE
    /\ Len(tasks) < MaxTasks
    /\ op' = [Begin(name, id) EXCEPT
                !.field = f, !.msg = msg, !.partial = partial,
                !.after = IF Repeats(name, id, partial)
                          THEN [name |-> ret.call.name, id |-> ret.call.id,
                                uid |-> ret.call.uid, status |-> ret.status,
                                had |-> ret.call.pre # NoRec]
                          ELSE NoAfter]
    /\ lock' = TRUE
    /\ pc' = "add_check"
    /\ ret' = NoRet
    /\ batch' = IF f = "progress" THEN NoBatch
                ELSE IF batch.id = id /\ batch.field = f
                     THEN [batch EXCEPT !.issued = @ + 1]
                     ELSE [id |-> id, field |-> f, hit |-> id \in DOMAIN cache,
                           stored |-> id \in DOMAIN db, base |-> Snapshot(id)[f],
                           issued |-> 1, msgs |-> <<>>]
    /\ UNCHANGED <<cache, db, dbUp, nextId, tasks, now, acked, seen, syncVars>>

add_chat_message(id) ==
    /\ nextMsg <= MaxMsgs
    /\ AddBegins("add_chat_message", id, "chat_history", nextMsg, EmptyMap)
    /\ nextMsg' = nextMsg + 1

add_quiz_response(id) ==
    /\ nextMsg <= MaxMsgs
    /\ AddBegins("add_quiz_response", id, "quiz_history", nextMsg, EmptyMap)
    /\ nextMsg' = nextMsg + 1

update_progress(id, partial) ==
    /\ AddBegins("update_progress", id, "progress", 0, partial)
    /\ nextMsg' = nextMsg

\* a hit path that changes a copy of the object and never stores it
HitRec_lost(rec, f, msg, partial, t) ==
    [rec EXCEPT !.updated_at = t]

\* the cached record after the hit path: the field changed in place, updated_at stamped
HitRec(rec, f, msg, partial, t) ==
    [Mutated(rec, f, msg, partial) EXCEPT !.updated_at = t]

\* a first block that never looks into the cache: every call reloads the session
add_check_reloads ==
    /\ pc = "add_check"
    /\ lock' = FALSE
    /\ pc' = "gs_load"
    /\ UNCHANGED <<cache, db, dbUp, nextId, tasks, op, ret, now, nextMsg, calls, acked, batch, seen, syncVars>>

\* lines 195-206 (227-238, 259-270) under the lock: on a hit the cached object is
\* changed in place, the background write is scheduled with that same object,
\* and the call returns; on a miss the lock is released and get_session called
add_check ==
    /\ pc = "add_check"
    /\ lock' = FALSE
    /\ IF op.id \in DOMAIN cache
       THEN /\ \E t \in now..MaxClock :
                /\ now' = t
                /\ cache' = [cache EXCEPT ![op.id] = HitRec(@, op.field, op.msg, op.partial, t)]
            /\ tasks' = Append(tasks, Task(op.id, Aliased(Data({op.field}, {}, <<>>, <<>>, EmptyMap, 0))))
            /\ acked' = IF op.field = "progress" THEN acked
                        ELSE [acked EXCEPT ![op.id] = @ \cup {op.msg}]
            /\ batch' = BatchAfter
            /\ Return("ok", NoRec, TRUE)
       ELSE /\ pc' = "gs_enter"
            /\ UNCHANGED <<cache, tasks, op, ret, now, acked, batch>>
    /\ UNCHANGED <<db, dbUp, nextId, nextMsg, calls, seen, syncVars>>

\* a fallback that makes up a session when there is none
add_fallback_fabricates ==
    /\ pc = "add_fallback"
    /\ cache' = Put(cache, op.id,
                    Mutated(IF op.id \in DOMAIN cache THEN cache[op.id]
                            ELSE Rec(op.id, "default_user", <<>>, <<>>, EmptyMap, now, now),
                            op.field, op.msg, op.partial))
    /\ op' = [op EXCEPT !.data =
                Data({op.field}, {op.field}, cache'[op.id].chat_history,
                     cache'[op.id].quiz_history, cache'[op.id].progress, 0)]
    /\ pc' = "us_enter"
    /\ ret' = ret
    /\ UNCHANGED <<db, dbUp, nextId, tasks, lock, now, nextMsg, acked, batch, calls, seen, syncVars>>

\* lines 210-216 (242-248, 274-280) outside the lock: no session raises
\* ValueError; otherwise the object got from the session dict is changed in
\* place and handed to update_session
add_fallback ==
    /\ pc = "add_fallback"
    /\ IF ~op.found
       THEN /\ Return("ValueError", NoRec, FALSE)
            /\ cache' = cache
       ELSE /\ cache' = IF op.id \in DOMAIN cache
                        THEN [cache EXCEPT ![op.id] = Mutated(@, op.field, op.msg, op.partial)]
                        ELSE cache
            /\ op' = [op EXCEPT !.data =
                        LET r == Mutated(IF op.id \in DOMAIN cache THEN cache[op.id] ELSE op.loaded,
                                         op.field, op.msg, op.partial)
                        IN Data({op.field},
                                IF op.id \in DOMAIN cache THEN {op.field} ELSE {},
                                r.chat_history, r.quiz_history, r.progress, 0)]
            /\ pc' = "us_enter"
            /\ ret' = ret
    /\ UNCHANGED <<db, dbUp, nextId, tasks, lock, now, nextMsg, acked, batch, calls, seen, syncVars>>

\* ---------------------------------------------------------------- delete_session
\* line 180: async with _cache_lock
delete_session(id) ==
    /\ pc = "idle"
    /\ calls < MaxCalls
    /\ calls' = calls + 1
    /\ lock = FALSE
    /\ op' = Begin("delete_session", id)
    /\ lock' = TRUE
    /\ pc' = "del_pop"
    /\ ret' = NoRet
    /\ batch' = NoBatch
    /\ UNCHANGED <<cache, db, dbUp, nextId, tasks, now, nextMsg, acked, seen, syncVars>>

\* line 181 under the lock
delete_session_pop ==
    /\ pc = "del_pop"
    /\ cache' = Drop(cache, op.id)
    /\ tasks' = Detach(tasks, op.id, Fields)
    /\ acked' = [acked EXCEPT ![op.id] = {}]
    /\ seen' = [seen EXCEPT ![op.id] = NoSeen]
    /\ UNCHANGED syncVars
    /\ batch' = batch
    /\ lock' = FALSE
    /\ pc' = "del_db"
    /\ UNCHANGED <<db, dbUp, nextId, op, ret, now, nextMsg, calls>>

\* a delete whose filter matches no row
delete_session_db_keeps ==
    /\ pc = "del_db"
    /\ db' = db
    /\ IF dbUp THEN Return("ok", NoRec, FALSE) ELSE Return("Exception", NoRec, FALSE)
    /\ UNCHANGED <<cache, dbUp, nextId, tasks, lock, now, nextMsg, acked, batch, calls, seen, syncVars>>

\* lines 184-188 outside the lock: the synchronous delete; its result tells
\* whether a row was deleted; a failure of the store is logged and raised again
delete_session_db ==
    /\ pc = "del_db"
    /\ \E ok \in BOOLEAN :
        IF ok
        THEN /\ db' = Drop(db, op.id)
             /\ Return("ok", NoRec, op.id \in DOMAIN db)
        ELSE /\ db' = db
             /\ Return("Exception", NoRec, FALSE)
    /\ UNCHANGED <<cache, dbUp, nextId, tasks, lock, now, nextMsg, acked, batch, calls, seen, syncVars>>

\* ---------------------------------------------------------------- clear_session_cache
\* line 288; the call takes no argument and the cache it leaves is always the
\* same, so it is not counted against MaxCalls
clear_session_cache ==
    /\ pc = "idle"
    /\ calls' = calls
    /\ lock = FALSE
    /\ op' = Begin("clear_session_cache", NoId)
    /\ lock' = TRUE
    /\ pc' = "cc_clear"
    /\ ret' = NoRet
    /\ batch' = NoBatch
    /\ UNCHANGED <<cache, db, dbUp, nextId, tasks, now, nextMsg, acked, seen, syncVars>>

\* line 289 under the lock
clear_session_cache_clear ==
    /\ pc = "cc_clear"
    /\ cache' = [x \in {} |-> NoRec]
    /\ tasks' = DetachAll(tasks, DOMAIN cache)
    /\ lock' = FALSE
    /\ Return("ok", NoRec, TRUE)
    /\ UNCHANGED <<db, dbUp, nextId, now, nextMsg, acked, batch, calls, seen, syncVars>>

\* ---------------------------------------------------------------- clear_chat_history (chat.py)
\* chat.py line 219: the route calls get_session
clear_chat_history(id) ==
    /\ pc = "idle"
    /\ calls < MaxCalls
    /\ calls' = calls + 1
    /\ Len(tasks) < MaxTasks
    /\ op' = Begin("clear_chat_history", id)
    /\ pc' = "gs_enter"
    /\ ret' = NoRet
    /\ batch' = NoBatch
    /\ UNCHANGED <<cache, db, dbUp, nextId, tasks, lock, now, nextMsg, acked, seen, syncVars>>

\* chat.py lines 220-227 and 231-233: without a session the route raises
\* HTTPException(404) inside its own try, whose "except Exception" turns it
\* into HTTP 500; with one it calls update_session with two empty lists
clear_chat_history_after_get ==
    /\ pc = "clear_after_get"
    /\ IF ~op.found
       THEN Return("HTTP500", NoRec, FALSE)
       ELSE /\ op' = [op EXCEPT !.data = ClearData]
            /\ pc' = "us_enter"
            /\ ret' = ret
    /\ UNCHANGED <<cache, db, dbUp, nextId, tasks, lock, now, nextMsg, acked, batch, calls, seen, syncVars>>

\* ---------------------------------------------------------------- get_chat_history (chat.py)
\* chat.py line 194: the route calls get_session
get_chat_history(id) ==
    /\ pc = "idle"
    /\ calls < MaxCalls
    /\ calls' = calls + 1
    /\ op' = Begin("get_chat_history", id)
    /\ pc' = "gs_enter"
    /\ ret' = NoRet
    /\ batch' = NoBatch
    /\ UNCHANGED <<cache, db, dbUp, nextId, tasks, lock, now, nextMsg, acked, seen, syncVars>>

\* chat.py lines 195-210: without a session the route raises
\* HTTPException(404), which its "except HTTPException: raise" lets through;
\* with one it returns the chat history of the session
get_chat_history_after_get ==
    /\ pc = "history_after_get"
    /\ IF ~op.found
       THEN Return("HTTP404", NoRec, FALSE)
       ELSE Return("ok", Snapshot(op.id), TRUE)
    /\ UNCHANGED <<cache, db, dbUp, nextId, tasks, lock, now, nextMsg, acked, batch, calls, seen, syncVars>>

\* ---------------------------------------------------------------- ChatService.process_message (chat_service.py)
\* chat_service.py lines 20-31: the request begins and calls get_session
process_message(id) ==
    /\ pc = "idle"
    /\ calls < MaxCalls
    /\ calls' = calls + 1
    /\ nextId <= MaxSessions
    /\ op' = [Begin("process_message", id) EXCEPT !.stage = "user"]
    /\ pc' = "gs_enter"
    /\ ret' = NoRet
    /\ batch' = NoBatch
    /\ UNCHANGED <<cache, db, dbUp, nextId, tasks, lock, now, nextMsg, acked, seen, syncVars>>

\* chat_service.py lines 32-41: without a session, create_session(session_id)
\* is called: the row is inserted, the store generates its id, user_id is the
\* default; a failure becomes HTTP 500 "Failed to create session"
process_message_got ==
    /\ pc = "pm_got"
    /\ IF op.found
       THEN /\ pc' = "pm_add"
            /\ UNCHANGED <<db, nextId, lock, op, ret, now>>
       ELSE IF dbUp
            THEN /\ lock = FALSE
                 /\ \E t1 \in now..MaxClock : \E t2 \in t1..MaxClock :
                      /\ now' = t2
                      /\ db' = Put(db, nextId,
                                   Row(nextId, "default_user", <<>>, <<>>, EmptyMap, t1, t2))
                      /\ op' = [op EXCEPT
                                  !.lazy = TRUE,
                                  !.loaded = Rec(nextId, "default_user", <<>>, <<>>,
                                                 EmptyMap, t1, t2)]
                 /\ nextId' = nextId + 1
                 /\ lock' = TRUE
                 /\ pc' = "pm_created"
                 /\ ret' = ret
            ELSE /\ pc' = "idle"
                 /\ ret' = [call |-> [op EXCEPT !.inner = "Exception"],
                            status |-> "HTTP500", val |-> NoRec, flag |-> FALSE]
                 /\ op' = NoOp
                 /\ UNCHANGED <<db, nextId, lock, now>>
    /\ UNCHANGED <<cache, dbUp, tasks, nextMsg, calls, acked, batch, seen, syncVars>>

\* session.py lines 53-57 for the session just created, under the lock
process_message_created ==
    /\ pc = "pm_created"
    /\ cache' = Put(cache, op.loaded.session_id, op.loaded)
    /\ tasks' = Detach(tasks, op.loaded.session_id, Fields)
    /\ lock' = FALSE
    /\ pc' = "pm_add"
    /\ UNCHANGED <<db, dbUp, nextId, op, ret, now, nextMsg, calls, acked, batch, seen, syncVars>>

\* chat_service.py lines 44 and 82: add_chat_message(session_id, ...) with the
\* session_id of the request, for the user message and then for the
\* assistant's
process_message_add ==
    /\ pc = "pm_add"
    /\ nextMsg <= MaxMsgs
    /\ Len(tasks) < MaxTasks
    /\ lock = FALSE
    /\ lock' = TRUE
    /\ op' = [op EXCEPT !.name = "add_chat_message", !.caller = "process_message",
                        !.field = "chat_history", !.msg = nextMsg,
                        !.pre = Snapshot(op.id)]
    /\ nextMsg' = nextMsg + 1
    /\ pc' = "add_check"
    /\ UNCHANGED <<cache, db, dbUp, nextId, tasks, ret, now, calls, acked, batch, seen, syncVars>>

\* chat_service.py lines 51-86 and 140-149: after the user message the crew
\* answers and the assistant message is added; after that the request returns;
\* an exception of add_chat_message becomes HTTP 500 "Failed to process message"
process_message_added ==
    /\ pc = "pm_added"
    /\ IF op.inner # "ok"
       THEN Return("HTTP500", NoRec, FALSE)
       ELSE IF op.stage = "user"
            THEN /\ op' = [op EXCEPT !.stage = "assistant"]
                 /\ pc' = "pm_add"
                 /\ ret' = ret
            ELSE Return("ok", NoRec, TRUE)
    /\ UNCHANGED <<cache, db, dbUp, nextId, tasks, lock, now, nextMsg, calls, acked, batch, seen, syncVars>>

\* ---------------------------------------------------------------- the store
\* the store is another system: it may stop answering and come back at any time
StoreFails ==
    /\ dbUp
    /\ dbUp' = FALSE
    /\ UNCHANGED <<cache, db, nextId, tasks, lock, pc, op, ret, now, nextMsg, calls, acked, batch, seen, syncVars>>

StoreRecovers ==
    /\ ~dbUp
    /\ dbUp' = TRUE
    /\ UNCHANGED <<cache, db, nextId, tasks, lock, pc, op, ret, now, nextMsg, calls, acked, batch, seen, syncVars>>

\* the step makes a call to the store: the insert of create_session (line 32),
\* the select of get_session (line 74), the select of update_session on a miss
\* (line 112), the update of a background write (line 150), the delete of
\* delete_session (line 184)
StoreCall ==
    \/ pc = "idle" /\ (op'.name = "create_session" \/ ret'.call.name = "create_session")
    \/ pc = "gs_load" /\ pc' # pc
    \/ pc = "us_body" /\ pc' # pc /\ op.id \notin DOMAIN cache
    \/ pc = "idle" /\ tasks # <<>> /\ tasks' = Tail(tasks)
    \/ pc = "del_db" /\ pc' # pc

Next ==
    \/ \E sid \in CreateIds, uid \in Users : create_session(sid, uid)
    \/ create_session_put
    \/ \E id \in Ids : get_session(id)
    \/ get_session_enter
    \/ get_session_check
    \/ get_session_load
    \/ get_session_store
    \/ \E id \in Ids : update_session(id)
    \/ update_session_enter
    \/ update_session_body
    \/ _update_session_async
    \/ \E id \in Ids : add_chat_message(id)
    \/ \E id \in Ids : add_quiz_response(id)
    \/ \E id \in Ids, partial \in ProgressInputs : update_progress(id, partial)
    \/ add_check
    \/ add_fallback
    \/ \E id \in Ids : delete_session(id)
    \/ delete_session_pop
    \/ delete_session_db
    \/ clear_session_cache
    \/ clear_session_cache_clear
    \/ \E id \in Ids : clear_chat_history(id)
    \/ clear_chat_history_after_get
    \/ StoreFails
    \/ StoreRecovers

Spec == Init /\ [][Next]_vars

\* the chat requests: process_message and what it calls
NextChat ==
    \/ \E id \in Ids : process_message(id)
    \/ process_message_got
    \/ process_message_created
    \/ process_message_add
    \/ process_message_added
    \/ get_session_enter
    \/ get_session_check
    \/ get_session_load
    \/ get_session_store
    \/ add_check
    \/ add_fallback
    \/ update_session_enter
    \/ update_session_body
    \/ _update_session_async
    \/ clear_session_cache
    \/ clear_session_cache_clear
    \/ StoreFails
    \/ StoreRecovers

SpecChat == Init /\ [][NextChat]_vars

\* the history routes, with the calls that make sessions and histories
NextRoutes ==
    \/ \E id \in Ids : get_chat_history(id)
    \/ get_chat_history_after_get
    \/ \E id \in Ids : clear_chat_history(id)
    \/ clear_chat_history_after_get
    \/ \E sid \in CreateIds, uid \in Users : create_session(sid, uid)
    \/ create_session_put
    \/ \E id \in Ids : add_chat_message(id)
    \/ add_check
    \/ add_fallback
    \/ get_session_enter
    \/ get_session_check
    \/ get_session_load
    \/ get_session_store
    \/ update_session_enter
    \/ update_session_body
    \/ _update_session_async
    \/ clear_session_cache
    \/ clear_session_cache_clear
    \/ StoreFails
    \/ StoreRecovers

SpecRoutes == Init /\ [][NextRoutes]_vars

\* the module in front of a store that never fails: no call to it raises
\* (delete_session, whose store call fails in the model by its own choice, is
\* left out)
NextStoreUp ==
    \/ \E sid \in CreateIds, uid \in Users : create_session(sid, uid)
    \/ create_session_put
    \/ \E id \in Ids : get_session(id)
    \/ get_session_enter
    \/ get_session_check
    \/ get_session_load
    \/ get_session_store
    \/ \E id \in Ids : update_session(id)
    \/ update_session_enter
    \/ update_session_body
    \/ _update_session_async
    \/ \E id \in Ids : add_chat_message(id)
    \/ \E id \in Ids : add_quiz_response(id)
    \/ \E id \in Ids, partial \in ProgressInputs : update_progress(id, partial)
    \/ add_check
    \/ add_fallback
    \/ clear_session_cache
    \/ clear_session_cache_clear
    \/ \E id \in Ids : clear_chat_history(id)
    \/ clear_chat_history_after_get

SpecStoreUp == Init /\ [][NextStoreUp]_vars

\* ---------------------------------------------------------------- BackgroundSyncService
\* backend/app/services/background_sync_service.py.  The service is started by
\* the application's startup event and stopped by its shutdown event, and
\* POST /sync/force calls force_sync_now; one call of the service is in
\* progress at a time (scall), while the _sync_loop tasks run on the same event
\* loop and take their steps between the steps of the call.  The two
\* awaits of _perform_sync are calls of the sheets service; each may raise,
\* and the first may find no profiles, the second may answer False.
\* Task.cancel() makes the task's next step raise CancelledError (not an
\* Exception, so _perform_sync's handler lets it pass) where the task stands.
\* _perform_sync catches every Exception, so the handler at lines 65-68 of
\* _sync_loop and the one at lines 101-103 of force_sync_now never run.
sessionVars == <<cache, db, dbUp, nextId, tasks, lock, pc, op, ret, nextMsg, calls, acked, batch, seen>>

Created == {k \in LoopIds : loops[k].state # "none"}
Live == {k \in LoopIds : loops[k].state \in LiveStates}
LiveNext == {k \in LoopIds : loops'[k].state \in LiveStates}

SReturn(name, val, outcome) ==
    sret' = [name |-> name, val |-> val, outcome |-> outcome]

\* variant: no look at is_running, every start creates a task
start_background_sync_unguarded ==
    /\ scall = NoSCall
    /\ Cardinality(Created) < MaxLoops
    /\ is_running' = TRUE
    /\ loops' = [loops EXCEPT ![Cardinality(Created) + 1] = [NoLoop EXCEPT !.state = "created"]]
    /\ sync_task' = Cardinality(Created) + 1
    /\ SReturn("start_background_sync", FALSE, "none")
    /\ UNCHANGED <<last_sync_time, scall, now, sessionVars>>

\* lines 21-33: no await in the body, so the call runs through
start_background_sync ==
    /\ scall = NoSCall
    /\ IF is_running
       THEN UNCHANGED <<is_running, sync_task, loops>>
       ELSE /\ Cardinality(Created) < MaxLoops
            /\ is_running' = TRUE
            /\ loops' = [loops EXCEPT ![Cardinality(Created) + 1] = [NoLoop EXCEPT !.state = "created"]]
            /\ sync_task' = Cardinality(Created) + 1
    /\ SReturn("start_background_sync", FALSE, "none")
    /\ UNCHANGED <<last_sync_time, scall, now, sessionVars>>

\* lines 35-49, up to the await: cancel() of a task that has finished does nothing
stop_background_sync ==
    /\ scall = NoSCall
    /\ IF is_running /\ sync_task # NoTask
       THEN /\ is_running' = FALSE
            /\ loops' = [loops EXCEPT ![sync_task].cancel = (loops[sync_task].state \in LiveStates)]
            /\ scall' = [NoSCall EXCEPT !.name = "stop_background_sync", !.stage = "await",
                                        !.awaiting = sync_task]
            /\ sret' = sret
       ELSE /\ is_running' = FALSE
            /\ SReturn("stop_background_sync", FALSE, "none")
            /\ UNCHANGED <<loops, scall>>
    /\ UNCHANGED <<sync_task, last_sync_time, now, sessionVars>>

\* lines 49-51: the awaited task has finished or was cancelled; stop returns
stop_background_sync_awaited ==
    /\ scall.name = "stop_background_sync"
    /\ scall.stage = "await"
    /\ loops[scall.awaiting].state \in {"done", "cancelled"}
    /\ scall' = NoSCall
    /\ SReturn("stop_background_sync", FALSE, "none")
    /\ UNCHANGED <<is_running, sync_task, last_sync_time, loops, now, sessionVars>>

\* line 55: the task runs for the first time, or wakes from its sleep, and
\* tests is_running; line 57 takes it into _perform_sync
_sync_loop(k) ==
    /\ loops[k].state \in {"created", "sleeping"}
    /\ ~loops[k].cancel
    /\ loops' = [loops EXCEPT ![k].state = IF is_running THEN "fetching" ELSE "done"]
    /\ UNCHANGED <<is_running, sync_task, last_sync_time, scall, sret, now, sessionVars>>

\* the cancellation arrives: a task that never ran ends cancelled; elsewhere
\* CancelledError is caught at lines 62-64 and the loop breaks
_sync_loop_cancelled(k) ==
    /\ loops[k].state \in LiveStates
    /\ loops[k].cancel
    /\ loops' = [loops EXCEPT ![k].cancel = FALSE,
                              ![k].state = IF loops[k].state = "created"
                                           THEN "cancelled" ELSE "done"]
    /\ UNCHANGED <<is_running, sync_task, last_sync_time, scall, sret, now, sessionVars>>

\* where w stands in _perform_sync
Pos(w) == IF w = ForceCaller THEN scall.stage ELSE loops[w].state

\* w goes on inside _perform_sync
Goes(w, stage) ==
    IF w = ForceCaller
    THEN /\ scall' = [scall EXCEPT !.stage = stage]
         /\ loops' = loops
    ELSE /\ loops' = [loops EXCEPT ![w].state = stage]
         /\ scall' = scall

\* _perform_sync returns (it never raises an Exception): the loop goes to
\* sleep (line 60), force_sync_now goes to its return (line 100)
Ends(w, outcome) ==
    IF w = ForceCaller
    THEN /\ scall' = [scall EXCEPT !.stage = "returning", !.outcome = outcome]
         /\ loops' = loops
    ELSE /\ loops' = [loops EXCEPT ![w].state = "sleeping", ![w].outcome = outcome]
         /\ scall' = scall

\* lines 76-78 and 87-91: get_all_user_profiles_for_export raises, finds
\* nothing, or returns profiles
_perform_sync_fetch(w) ==
    /\ Pos(w) = "fetching"
    /\ w # ForceCaller => ~loops[w].cancel
    /\ \E res \in {"raises", "empty", "profiles"} :
         IF res = "profiles" THEN Goes(w, "exporting")
         ELSE Ends(w, IF res = "raises" THEN "fetch_raised" ELSE "no_profiles")
    /\ UNCHANGED <<is_running, sync_task, last_sync_time, sret, now, sessionVars>>

\* lines 80-86 and 90-91: export_user_profiles_to_sheet raises, answers False,
\* or answers True, and then last_sync_time is set
_perform_sync_export(w) ==
    /\ Pos(w) = "exporting"
    /\ w # ForceCaller => ~loops[w].cancel
    /\ \E res \in {"raises", "false", "true"} :
         IF res = "true"
         THEN /\ \E t \in now..MaxClock :
                   /\ now' = t
                   /\ last_sync_time' = t
              /\ Ends(w, "exported")
         ELSE /\ Ends(w, IF res = "raises" THEN "export_raised" ELSE "export_failed")
              /\ UNCHANGED <<last_sync_time, now>>
    /\ UNCHANGED <<is_running, sync_task, sret, sessionVars>>

\* lines 95-99: force_sync_now enters _perform_sync
force_sync_now ==
    /\ scall = NoSCall
    /\ scall' = [NoSCall EXCEPT !.name = "force_sync_now", !.stage = "fetching"]
    /\ UNCHANGED <<is_running, sync_task, last_sync_time, loops, sret, now, sessionVars>>

\* line 100: _perform_sync has returned, force_sync_now returns True
force_sync_now_returns ==
    /\ scall.name = "force_sync_now"
    /\ scall.stage = "returning"
    /\ SReturn("force_sync_now", TRUE, scall.outcome)
    /\ scall' = NoSCall
    /\ UNCHANGED <<is_running, sync_task, last_sync_time, loops, now, sessionVars>>

NextSync ==
    \/ start_background_sync
    \/ stop_background_sync
    \/ stop_background_sync_awaited
    \/ force_sync_now
    \/ force_sync_now_returns
    \/ \E k \in LoopIds : _sync_loop(k)
    \/ \E k \in LoopIds : _sync_loop_cancelled(k)
    \/ \E w \in Performers : _perform_sync_fetch(w)
    \/ \E w \in Performers : _perform_sync_export(w)

SpecSync == Init /\ [][NextSync]_vars

\* the steps of a call that has begun: the event loop runs a coroutine on
\* until it returns or raises, and the store answers every call made to it
\* (with a result or with an error)
Continue ==
    \/ create_session_put
    \/ get_session_enter
    \/ get_session_check
    \/ get_session_load
    \/ get_session_store
    \/ update_session_enter
    \/ update_session_body
    \/ add_check
    \/ add_fallback
    \/ delete_session_pop
    \/ delete_session_db
    \/ clear_session_cache_clear
    \/ clear_chat_history_after_get

\* where a call stands while it holds _cache_lock (inside "async with")
LockHeldAt == {"cs_put", "gs_check", "gs_store", "us_body", "add_check", "del_pop", "cc_clear"}

SpecLive == Init /\ [][Next]_vars /\ WF_vars(Continue)

\* ---------------------------------------------------------------- properties
AddNames == {"add_chat_message", "add_quiz_response", "update_progress"}
Returned(names) == pc = "idle" /\ ret.call.name \in names

\* C1: append calls issued together on a session that is in the cache (a batch,
\* run by the loop in some order) all return, and leave the cached history
\* equal to the history they found followed by their entries: exactly as many
\* entries longer as there were calls, each entry once.
C1_AppendNoLoss ==
    (pc = "idle" /\ batch.hit) =>
        /\ Len(batch.msgs) = batch.issued
        /\ batch.id \in DOMAIN cache
        /\ cache[batch.id][batch.field] = batch.base \o batch.msgs

C1_Witness ==
    /\ pc = "idle"
    /\ batch.hit
    /\ batch.issued = 2
    /\ Len(cache[batch.id][batch.field]) = Len(batch.base) + 2

C3_CreateThenGet ==
    (/\ Returned({"get_session"})
     /\ ret.call.after.name = "create_session"
     /\ ret.call.after.status = "ok"
     /\ ret.call.after.id = ret.call.id
     /\ ret.call.id = CallerId) =>
        /\ ret.flag
        /\ ret.val.session_id = ret.call.id
        /\ ret.val.user_id = ret.call.after.uid
        /\ ret.val.chat_history = <<>>
        /\ ret.val.quiz_history = <<>>

\* C4: create_session returns successfully, with the new session in the cache,
\* also when the store fails.
C4_CreateNeverFails ==
    Returned({"create_session"}) =>
        /\ ret.status = "ok"
        /\ ret.val.session_id \in DOMAIN cache

\* C5: add_chat_message, add_quiz_response and update_progress on a session that
\* is in the cache return without raising and the cached record holds the
\* mutation, whatever the store does; the outcome of the call stays what it was
\* and the cache keeps the mutation when the background write fails later.
C5_WriteBehindIsolation ==
    (Returned(AddNames) /\ ret.call.pre # NoRec) =>
        /\ ret.status = "ok"
        /\ ret.call.id \in DOMAIN cache
        /\ cache[ret.call.id][ret.call.field] =
              Mutated(ret.call.pre, ret.call.field, ret.call.msg, ret.call.partial)[ret.call.field]

\* the store is down, the write of the call has run and was lost
C5_Witness ==
    /\ Returned(AddNames)
    /\ ret.call.pre # NoRec
    /\ ret.status = "ok"
    /\ ~dbUp
    /\ tasks = <<>>
    /\ ret.call.id \in DOMAIN db
    /\ ret.call.id \in DOMAIN cache
    /\ db[ret.call.id][ret.call.field] # cache[ret.call.id][ret.call.field]

\* C6: once delete_session(id) has returned, neither the cache nor the store
\* holds id, and a get_session(id) that follows returns None.
C6_DeleteRemovesBoth ==
    /\ (Returned({"delete_session"}) /\ ret.status = "ok") =>
            /\ ret.call.id \notin DOMAIN cache
            /\ ret.call.id \notin DOMAIN db
    /\ (/\ Returned({"get_session"})
        /\ ret.call.after.name = "delete_session"
        /\ ret.call.after.status = "ok"
        /\ ret.call.after.id = ret.call.id) =>
            /\ ~ret.flag
            /\ ret.call.id \notin DOMAIN cache
            /\ ret.call.id \notin DOMAIN db

\* a session that was cached and stored is deleted, then looked up
C6_Witness ==
    /\ Returned({"get_session"})
    /\ ret.call.after.name = "delete_session"
    /\ ret.call.after.status = "ok"
    /\ ret.call.after.id = ret.call.id
    /\ ret.call.after.had
    /\ ~ret.flag

\* C7: delete_session does not raise when the delete in the store fails.
C7_DeleteNeverRaises ==
    Returned({"delete_session"}) => ret.status = "ok"

\* C8: add_chat_message, add_quiz_response and update_progress on an id that is
\* neither in the cache nor in the store end with ValueError, and no step of
\* such a call changes the cache, the store or the pending background writes.
C8_UnknownIdNotFound ==
    [][(op.name \in AddNames /\ op.id \notin DOMAIN cache /\ op.id \notin DOMAIN db) =>
            /\ cache' = cache
            /\ db' = db
            /\ tasks' = tasks
            /\ (pc' = "idle" => ret'.status = "ValueError")]_vars

C8_Witness ==
    /\ Returned(AddNames)
    /\ ret.status = "ValueError"
    /\ ret.call.id \notin DOMAIN db
    /\ ret.call.id \notin DOMAIN cache
    /\ DOMAIN cache # {}
    /\ dbUp

\* C9: once an append on id has returned successfully, every later
\* get_session(id) returns a record that holds the entry, until the history is
\* cleared or the session deleted.
C9_ReadYourWrites ==
    (Returned({"get_session"}) /\ acked[ret.call.id] # {}) =>
        /\ ret.flag
        /\ acked[ret.call.id] \subseteq
              Range(ret.val.chat_history) \cup Range(ret.val.quiz_history)

\* C10: every change of the cache map or of a cached record happens while
\* _cache_lock is held.
C10_MutationsUnderLock ==
    [][cache' # cache => lock]_vars

\* C11: when update_progress(id, partial) has returned, the session's progress
\* is the map the call found (in the cache, or loaded from the store on a
\* miss) with the keys of partial set to partial's values, every other key it
\* had kept with its value, and no other key.
C11_ProgressMerge ==
    (Returned({"update_progress"}) /\ ret.status = "ok") =>
        /\ ret.call.id \in DOMAIN cache
        /\ LET prev == IF ret.call.pre # NoRec THEN ret.call.pre.progress
                       ELSE ret.call.loaded.progress
               new == cache[ret.call.id].progress
           IN /\ DOMAIN new = DOMAIN prev \cup DOMAIN ret.call.partial
              /\ \A k \in DOMAIN ret.call.partial : new[k] = ret.call.partial[k]
              /\ \A k \in DOMAIN prev \ DOMAIN ret.call.partial : new[k] = prev[k]

\* {a:1} was merged before, {b:2} now: the progress is {a:1, b:2}
C11_Witness ==
    /\ Returned({"update_progress"})
    /\ ret.status = "ok"
    /\ ret.call.pre.progress = Map1("a", 1)
    /\ ret.call.partial = Map1("b", 2)
    /\ cache[ret.call.id].progress = [k \in {"a", "b"} |-> IF k = "a" THEN 1 ELSE 2]

\* C12: update_progress(id, partial) called again with the same partial, right
\* after the first call returned, leaves the progress map the first call left.
C12_MergeIdempotent ==
    (/\ Returned({"update_progress"})
     /\ ret.status = "ok"
     /\ ret.call.after.name = "update_progress"
     /\ ret.call.after.status = "ok") =>
        /\ ret.call.pre # NoRec
        /\ cache[ret.call.id].progress = ret.call.pre.progress

\* the repeated partial met a map that held another key as well
C12_Witness ==
    /\ Returned({"update_progress"})
    /\ ret.status = "ok"
    /\ ret.call.after.name = "update_progress"
    /\ ret.call.after.status = "ok"
    /\ ret.call.partial = Map1("a", 1)
    /\ DOMAIN cache[ret.call.id].progress = {"a", "b"}

\* the calls that clear a session's histories
ClearNames == {"update_session", "clear_chat_history"}

\* C13: while a history clear of session id runs (update_session with two empty
\* histories, called directly or by the history-clear route), no step changes
\* the cached record or the stored row of another session, nor the session_id,
\* user_id or progress of id (a record loaded on the way has those of the
\* stored row); when the clear returns successfully both cached histories of
\* id are empty.
C13_ClearFrame ==
    [][(op.name \in ClearNames) =>
        /\ \A j \in Ids \ {op.id} :
              /\ Snapshot(j)' = Snapshot(j)
              /\ (j \in DOMAIN db') = (j \in DOMAIN db)
              /\ j \in DOMAIN db => db'[j] = db[j]
        /\ op.id \in DOMAIN cache =>
              /\ op.id \in DOMAIN cache'
              /\ cache'[op.id].session_id = cache[op.id].session_id
              /\ cache'[op.id].user_id = cache[op.id].user_id
              /\ cache'[op.id].progress = cache[op.id].progress
        /\ (op.id \notin DOMAIN cache /\ op.id \in DOMAIN cache') =>
              /\ op.id \in DOMAIN db
              /\ cache'[op.id].session_id = op.id
              /\ cache'[op.id].user_id = db[op.id].user_id
              /\ cache'[op.id].progress = db[op.id].progress
        /\ (pc' = "idle" /\ ret'.status = "ok") =>
              /\ op.id \in DOMAIN cache'
              /\ cache'[op.id].chat_history = <<>>
              /\ cache'[op.id].quiz_history = <<>>]_vars

\* a session that had a history was cleared while another session was cached
C13_Witness ==
    /\ Returned(ClearNames)
    /\ ret.status = "ok"
    /\ ret.call.pre.chat_history # <<>>
    /\ cache[ret.call.id].chat_history = <<>>
    /\ \E j \in DOMAIN cache : j # ret.call.id

\* C14: a get_session that did not find its id in the cache leaves the cache as
\* it is up to its load, and when the load fails (the store is down) or finds
\* no row, the call ends there without raising, with None for its caller (an
\* outside caller, or the function of the module that called it), and the
\* cache unchanged.
C14_MissNotFound ==
    [][(pc \in {"gs_check", "gs_load"} /\ pc' # pc /\ op.id \notin DOMAIN cache) =>
        /\ cache' = cache
        /\ (pc = "gs_load" /\ ~(dbUp /\ op.id \in DOMAIN db)) =>
              IF op.name = "get_session"
              THEN /\ pc' = "idle"
                   /\ ret'.status = "ok"
                   /\ ~ret'.flag
                   /\ ret'.val = NoRec
              ELSE /\ pc' \in {"add_fallback", "clear_after_get"}
                   /\ ~op'.found]_vars

\* the row is there but the load failed, with another session in the cache
C14_Witness ==
    /\ Returned({"get_session"})
    /\ ret.status = "ok"
    /\ ~ret.flag
    /\ ret.call.pre = NoRec
    /\ ret.call.id \in DOMAIN db
    /\ ret.call.id \notin DOMAIN cache
    /\ DOMAIN cache # {}

\* C15: a get_session that missed the cache and whose select finds the row (the
\* store is up) goes on to store the record built from the row in the cache
\* and returns that record; a get_session for the same id that follows a
\* get_session which returned a record starts with the id in the cache; and a
\* get_session that finds its id in the cache returns the cached record from
\* the check under the lock, without reaching the select.
C15_LoadPopulatesCache ==
    [][(pc' # pc /\ (op.name = "get_session" \/ op'.name = "get_session")) =>
        /\ (pc = "gs_load" /\ dbUp /\ op.id \in DOMAIN db) => pc' = "gs_store"
        /\ pc = "gs_store" =>
              /\ cache' = Put(cache, op.id, FromRow(db[op.id]))
              /\ pc' = "idle"
              /\ ret'.status = "ok"
              /\ ret'.flag
              /\ ret'.val = cache'[op.id]
        /\ (pc = "idle" /\ ret.call.name = "get_session"
                /\ ret.call.id = op'.id /\ ret.flag) =>
              /\ op'.id \in DOMAIN cache
              /\ cache[op'.id] = ret.val
        /\ (pc = "gs_check" /\ op.id \in DOMAIN cache) =>
              /\ pc' = "idle"
              /\ ret'.status = "ok"
              /\ ret'.flag
              /\ ret'.val = cache[op.id]
              /\ cache' = cache]_vars

\* the first get_session loaded the session, the store went down, the second
\* get_session returned the session all the same
C15_Witness ==
    /\ Returned({"get_session"})
    /\ ret.call.after.name = "get_session"
    /\ ret.call.after.id = ret.call.id
    /\ ~ret.call.after.had
    /\ ret.call.pre # NoRec
    /\ ret.flag
    /\ ret.val = cache[ret.call.id]
    /\ ~dbUp

\* C16: no call to the store is made while _cache_lock is held, so that a
\* caller whose id is in the cache (who needs only the lock) never waits for
\* the store, whatever call another caller is in.
C16_StoreCallsOutsideLock ==
    [][StoreCall => ~lock]_vars

\* C17: what a pending background write will store is fixed when the write is
\* scheduled: no step changes the content a write still pending after the
\* step holds for any of its fields.
C17_WriteStoresSnapshot ==
    [][\A i \in 1..Len(tasks) :
        LET j == IF Len(tasks') < Len(tasks) THEN i - 1 ELSE i
        IN j >= 1 =>
            \A f \in tasks[i].data.fields :
                TaskValueNext(tasks'[j], f) = TaskValue(tasks[i], f)]_vars

\* C18: a step adds at most one background write to the queue, and only a step
\* that ends a mutation (an append, a merge, an update) successfully adds one;
\* while the loop has control the queue changes only by losing its oldest
\* write, which is the attempt of that write: the write is gone from the queue
\* whether the store took it or failed, the cache and the outcome of the last
\* call stay as they are, and a failed attempt leaves the store as it is.
C18_FailedWriteDropped ==
    [][/\ Len(tasks') <= Len(tasks) + 1
       /\ Len(tasks') = Len(tasks) + 1 =>
             /\ pc' = "idle"
             /\ ret'.status = "ok"
             /\ ret'.call.name \in AddNames \cup ClearNames
       /\ (pc = "idle" /\ pc' = "idle" /\ tasks' # tasks) =>
             /\ tasks # <<>>
             /\ tasks' = Tail(tasks)
             /\ cache' = cache
             /\ ret' = ret
             /\ ~dbUp => db' = db]_vars

\* the write of a merge failed; the store is up again and nothing is pending
C18_Witness ==
    /\ Returned({"update_progress"})
    /\ ret.status = "ok"
    /\ tasks = <<>>
    /\ dbUp
    /\ ret.call.id \in DOMAIN db
    /\ ret.call.id \in DOMAIN cache
    /\ cache[ret.call.id].progress = DictUpdate(ret.call.pre.progress, ret.call.partial)
    /\ db[ret.call.id].progress # cache[ret.call.id].progress

\* C19: a get_session(id) that returns a record returns one whose updated_at is
\* not below the updated_at the get_session(id) before it returned, as long as
\* the session was not deleted between the two (the clock never goes back).
C19_UpdatedAtMonotonic ==
    [][(pc # "idle" /\ pc' = "idle" /\ ret'.call.name = "get_session" /\ ret'.flag) =>
            ret'.val.updated_at >= seen[ret'.call.id].updated_at]_vars

\* C20: a get_session(id) that returns a record returns histories that are not
\* shorter than those the get_session(id) before it returned, as long as the
\* histories were not cleared and the session not deleted between the two.
C20_HistoryLengthMonotonic ==
    [][(pc # "idle" /\ pc' = "idle" /\ ret'.call.name = "get_session" /\ ret'.flag) =>
            /\ Len(ret'.val.chat_history) >= seen[ret'.call.id].chat_history
            /\ Len(ret'.val.quiz_history) >= seen[ret'.call.id].quiz_history]_vars

\* C21: the record create_session returns has created_at equal to updated_at.
C21_CreatedEqualsUpdated ==
    (Returned({"create_session"}) /\ ret.status = "ok") =>
        ret.val.created_at = ret.val.updated_at

\* C22: after every step each cache entry has the session_id it is stored
\* under; a step changes neither the user_id nor the created_at of a session
\* that stays in the cache, nor the id, user_id or created_at of a row that
\* stays in the store; and a session that is both cached and stored has the
\* user_id and created_at of its row, so that a reload gives them back.
C22_IdentityImmutable ==
    [][/\ \A i \in DOMAIN cache' : cache'[i].session_id = i
       /\ \A i \in DOMAIN cache \cap DOMAIN cache' :
            /\ cache'[i].user_id = cache[i].user_id
            /\ cache'[i].created_at = cache[i].created_at
       /\ \A i \in DOMAIN db \cap DOMAIN db' :
            /\ db'[i].id = i
            /\ db'[i].user_id = db[i].user_id
            /\ db'[i].created_at = db[i].created_at
       /\ \A i \in DOMAIN cache' \cap DOMAIN db' :
            /\ cache'[i].user_id = db'[i].user_id
            /\ cache'[i].created_at = db'[i].created_at]_vars

\* a session was changed, written back, dropped from the cache and loaded again
C22_Witness ==
    /\ Returned({"get_session"})
    /\ ret.flag
    /\ ret.call.pre = NoRec
    /\ ret.val.chat_history # <<>>
    /\ ret.val.updated_at > ret.val.created_at
    /\ ret.val.user_id = "user123"
    /\ ret.val.session_id = ret.call.id

\* C23: a process_message whose get_session returned None and which created a
\* session returns successfully, with the user message and the assistant
\* message of the request in the chat_history of a cached session.
C23_LazyCreation ==
    (Returned({"process_message"}) /\ ret.call.lazy) =>
        /\ ret.status = "ok"
        /\ \E i \in DOMAIN cache :
              {ret.call.msg - 1, ret.call.msg} \subseteq Range(cache[i].chat_history)

\* C24: when the get_session of a history route (read or clear) returned None,
\* the route ends there with HTTP 404, and it has not called update_session:
\* the cache and the pending writes are as they were.
C24_HistoryRoutesNotFound ==
    [][(pc \in {"history_after_get", "clear_after_get"} /\ pc' # pc /\ ~op.found) =>
            /\ pc' = "idle"
            /\ ret'.status = "HTTP404"
            /\ cache' = cache
            /\ tasks' = tasks]_vars

\* C25: with a store that never fails, whenever no call is running and no
\* background write is pending, every cached session has a row in the store
\* and the row has the chat_history, quiz_history and progress of the cached
\* record.
C25_QuiescentAgreement ==
    (pc = "idle" /\ tasks = <<>>) =>
        \A i \in DOMAIN cache :
            /\ i \in DOMAIN db
            /\ db[i].chat_history = cache[i].chat_history
            /\ db[i].quiz_history = cache[i].quiz_history
            /\ db[i].progress = cache[i].progress

\* C26: when delete_session(id) returns successfully, id is neither in the
\* cache nor in the store; and an id that is in neither and is not the id the
\* store generates next is in neither after any step, a background write for
\* that id included: nothing but the insert of a new session adds a row, and a
\* cache entry comes only from a new session or from a row.
C26_WriteAfterDelete ==
    [][/\ (pc' = "idle" /\ ret'.call.name = "delete_session" /\ ret'.status = "ok") =>
            /\ ret'.call.id \notin DOMAIN db'
            /\ ret'.call.id \notin DOMAIN cache'
       /\ \A i \in Ids :
            (i \notin DOMAIN db /\ i \notin DOMAIN cache /\ i # nextId) =>
                (i \notin DOMAIN db' /\ i \notin DOMAIN cache')]_vars

\* the session was deleted while a write for it was pending; the write is the
\* next the loop runs
C26_Witness ==
    /\ Returned({"delete_session"})
    /\ ret.status = "ok"
    /\ ret.call.pre # NoRec
    /\ tasks # <<>>
    /\ Head(tasks).id = ret.call.id
    /\ dbUp
    /\ ret.call.id \notin DOMAIN db
    /\ ret.call.id \notin DOMAIN cache

\* C27: _cache_lock is held exactly while a call is inside one of its
\* "async with _cache_lock" blocks: it is free wherever a call is about to
\* acquire it and free again whenever a call has returned or raised, the
\* ValueError raised inside update_session included; and every call that has
\* begun returns or raises in the end.
C27_NoDeadlock ==
    /\ [](lock <=> pc \in LockHeldAt)
    /\ (pc # "idle") ~> (pc = "idle")

\* update_session raised ValueError inside its locked block; the lock is free
C27_Witness ==
    /\ Returned({"update_session"})
    /\ ret.status = "ValueError"
    /\ ~lock
    /\ DOMAIN cache # {}

\* C28: the step of add_chat_message that finds its session in the cache
\* changes, in the cache, only that entry's chat_history and updated_at, leaves
\* the store alone and schedules one write for that id carrying chat_history
\* alone; and a background write carrying chat_history alone changes, in the
\* store, only the chat_history and updated_at columns of the row of its id.
C28_ChatMessageFrame ==
    [][/\ (pc = "add_check" /\ pc' # pc /\ op.name = "add_chat_message" /\ op.id \in DOMAIN cache) =>
            /\ DOMAIN cache' = DOMAIN cache
            /\ \A i \in DOMAIN cache \ {op.id} : cache'[i] = cache[i]
            /\ cache'[op.id] = [cache[op.id] EXCEPT
                                   !.chat_history = cache'[op.id].chat_history,
                                   !.updated_at = cache'[op.id].updated_at]
            /\ db' = db
            /\ Len(tasks') = Len(tasks) + 1
            /\ SubSeq(tasks', 1, Len(tasks)) = tasks
            /\ tasks'[Len(tasks')].id = op.id
            /\ tasks'[Len(tasks')].data.fields = {"chat_history"}
       /\ (pc = "idle" /\ tasks # <<>> /\ tasks' = Tail(tasks)
           /\ Head(tasks).data.fields = {"chat_history"}) =>
            /\ DOMAIN db' = DOMAIN db
            /\ cache' = cache
            /\ \A i \in DOMAIN db \ {Head(tasks).id} : db'[i] = db[i]
            /\ Head(tasks).id \in DOMAIN db =>
                 db'[Head(tasks).id] = [db[Head(tasks).id] EXCEPT
                                           !.chat_history = db'[Head(tasks).id].chat_history,
                                           !.updated_at = db'[Head(tasks).id].updated_at]]_vars

\* a cache-hit add_chat_message on a session with quiz answers and progress,
\* another session being cached, has returned and its write has been executed
C28_Witness ==
    /\ Returned({"add_chat_message"}) /\ ret.status = "ok" /\ ret.call.pre # NoRec
    /\ tasks = <<>>
    /\ Cardinality(DOMAIN cache) = 2
    /\ ret.call.id \in DOMAIN db
    /\ db[ret.call.id].chat_history # <<>>
    /\ \/ db[ret.call.id].quiz_history # <<>>
       \/ db[ret.call.id].progress # EmptyMap

\* C29: after every step at most one _sync_loop task is unfinished; a
\* start_background_sync made while is_running creates no task; when
\* stop_background_sync returns is_running is false and no task is
\* unfinished; and a task that has finished or was cancelled takes no
\* further step.
C29_SingleLoop ==
    [][/\ Cardinality(LiveNext) <= 1
       /\ (is_running /\ sret' # sret /\ sret'.name = "start_background_sync") => loops' = loops
       /\ ((sret' # sret /\ sret'.name = "stop_background_sync")
            \/ (scall.name = "stop_background_sync" /\ scall' = NoSCall)) =>
              (~is_running' /\ LiveNext = {})
       /\ \A k \in LoopIds :
            loops[k].state \in {"done", "cancelled"} => loops'[k] = loops[k]]_vars

\* the service was started, stopped and started again: the first task has
\* finished after at least one _perform_sync, the second is running
C29_Witness ==
    /\ is_running
    /\ sync_task = 2
    /\ loops[1].state = "done"
    /\ loops[1].outcome # "none"
    /\ loops[2].state \in {"fetching", "exporting", "sleeping"}

\* C30: force_sync_now returns False when the fetch or the export of its
\* _perform_sync raised or failed, and last_sync_time changes only in a step
\* that ends a _perform_sync with a successful export.
C30_ForceSyncReports ==
    [][/\ (sret'.name = "force_sync_now" /\ sret'.outcome \in FailedOutcomes) => sret'.val = FALSE
       /\ last_sync_time' # last_sync_time =>
            \E w \in Performers :
               /\ Pos(w) = "exporting"
               /\ IF w = ForceCaller THEN scall'.outcome = "exported"
                  ELSE loops'[w].outcome = "exported"]_vars
====
